---- MODULE Spec2Model ----
(***************************************************************************)
(* Model of the actix-csrf middleware (src/src/lib.rs): the builder Csrf,  *)
(* the configuration Inner, the service CsrfMiddleware::call and the       *)
(* response future CsrfMiddlewareFuture::poll, driven by requests against  *)
(* the application of the crate's tests (a resource "/" with GET and POST  *)
(* handlers returning 200).                                                *)
(***************************************************************************)
EXTENDS Integers, Sequences, FiniteSets, TLC

\* ------------------------------------------------------------------ bounds
\* Number of builder calls (set_enabled, add_extractor, set_extractors,
\* add_whilelist) made on Csrf::new() before the middleware is built.
MaxBuilderCalls == 2

\* ------------------------------------------------------------- input sets
Methods == {"GET", "POST", "PUT", "DELETE", "PATCH", "OPTIONS"}
Paths == {"/", "/other"}
\* Token strings: "a"/"b" differ in a byte, "a"/"ab" differ in length.
Tokens == {"a", "b", "ab"}
\* Absence of a cookie / header / value (Option::None).
None == "None"
HeaderNames == {"x-csrf-token", "x-alt"}

\* http::StatusCode values used by the crate and by the tests' application
OK == 200
BAD_REQUEST == 400

\* A request as the middleware reads it: method(), path(), cookie(name),
\* and the headers an extractor may look at.
HeaderValues(h) ==
    IF h = "x-csrf-token" THEN Tokens \cup {None} ELSE {"a", None}

Requests ==
    [method : Methods, path : Paths,
     cookie : Tokens \cup {None},
     headers : {f \in [HeaderNames -> Tokens \cup {None}] :
                   \A h \in HeaderNames : f[h] \in HeaderValues(h)}]

NoRequest == [method |-> None, path |-> None, cookie |-> None,
              headers |-> [h \in HeaderNames |-> None]]

\* Result<String, CsrfError>
Ok(v) == [ok |-> TRUE, val |-> v]
Err(e) == [ok |-> FALSE, val |-> e]

\* extractor::BasicExtractor::Header { name }
Header(name) == [kind |-> "Header", name |-> name]
Extractors == {Header(n) : n \in HeaderNames}

\* ------------------------------------------------------------ configuration
\* HashMap::insert on req_extractors
MapInsert(map, k, v) ==
    [x \in (DOMAIN map) \cup {k} |-> IF x = k THEN v ELSE map[x]]

EmptyMap == [x \in {} |-> None]

\* Inner::default()
Inner_default ==
    [cookie_name |-> "csrfToken",
     csrf_enabled |-> TRUE,
     req_extractors |->
        MapInsert(MapInsert(MapInsert(EmptyMap,
            "POST", Header("x-csrf-token")),
            "PUT", Header("x-csrf-token")),
            "DELETE", Header("x-csrf-token")),
     whitelist |-> <<>>]

\* Inner::in_whilelist, mutated: only the method is compared
in_whilelist_method_only(inner, req_method, req_uri) ==
    \E i \in 1..Len(inner.whitelist) :
        inner.whitelist[i][1] = req_method

\* Inner::in_whilelist
in_whilelist(inner, req_method, req_uri) ==
    \E i \in 1..Len(inner.whitelist) :
        /\ inner.whitelist[i][1] = req_method
        /\ inner.whitelist[i][2] = req_uri

\* Inner::should_protect, mutated: the extractor map is not consulted
should_protect_any_method(inner, r) ==
    IF in_whilelist(inner, r.method, r.path)
    THEN FALSE
    ELSE inner.csrf_enabled

\* Inner::should_protect, mutated: csrf_enabled is not consulted
should_protect_always_enabled(inner, r) ==
    IF in_whilelist(inner, r.method, r.path)
    THEN FALSE
    ELSE r.method \in DOMAIN inner.req_extractors

\* Inner::should_protect
should_protect(inner, r) ==
    IF in_whilelist(inner, r.method, r.path)
    THEN FALSE
    ELSE (r.method \in DOMAIN inner.req_extractors) /\ inner.csrf_enabled

\* Inner::extract_cookie_token: only the cookie named cookie_name is read
extract_cookie_token(inner, r) ==
    IF r.cookie # None THEN Ok(r.cookie) ELSE Err("MissingCookie")

\* Extractor::extract_token for BasicExtractor::Header
extract_token(extractor, r) ==
    IF r.headers[extractor.name] # None
    THEN Ok(r.headers[extractor.name])
    ELSE Err("MissingToken")

\* Inner::extract_request_token; the unwrap() panics without an extractor
extract_request_token(inner, r) ==
    IF r.method \in DOMAIN inner.req_extractors
    THEN extract_token(inner.req_extractors[r.method], r)
    ELSE Err("UnwrapPanic")

\* ------------------------------------------------------------- the service
\* The application wrapped in tests::double_submit_correct_token:
\* resource "/" with GET and POST routes answering HttpResponse::Ok(); any
\* other path is not found (404), any other method on "/" not allowed (405).
service_call(r) ==
    [status |-> IF r.path # "/" THEN 404
                ELSE IF r.method \in {"GET", "POST"} THEN OK
                ELSE 405,
     set_cookie |-> <<>>]

NoResponse == [status |-> 0, set_cookie |-> <<>>]

\* CsrfError::error_response
error_response(e) == [status |-> BAD_REQUEST, set_cookie |-> <<>>]

\* The match of CsrfMiddleware::call, mutated: the tokens are not compared
match_tokens_no_compare(cookie_token, req_token) ==
    IF ~cookie_token.ok THEN cookie_token.val
    ELSE IF ~req_token.ok THEN req_token.val
    ELSE None

\* The match of CsrfMiddleware::call, mutated: the request token's error
\* is bound before the cookie's
match_tokens_req_first(cookie_token, req_token) ==
    IF ~req_token.ok THEN req_token.val
    ELSE IF ~cookie_token.ok THEN cookie_token.val
    ELSE IF cookie_token.val # req_token.val THEN "TokenDontMatch"
    ELSE None

\* The match of CsrfMiddleware::call: the CsrfError it returns with, or None
\* when the tokens match. The or-pattern (Err(e), _) | (_, Err(e)) binds the
\* cookie's error when the cookie is missing.
match_tokens(cookie_token, req_token) ==
    IF ~cookie_token.ok THEN cookie_token.val
    ELSE IF ~req_token.ok THEN req_token.val
    ELSE IF cookie_token.val # req_token.val THEN "TokenDontMatch"
    ELSE None

\* CsrfMiddleware::call, mutated: the downstream service is called before
\* the check
call_service_first(inner, r) ==
    LET e == IF should_protect(inner, r)
             THEN match_tokens(extract_cookie_token(inner, r),
                               extract_request_token(inner, r))
             ELSE None
    IN  IF e = "UnwrapPanic"
        THEN [kind |-> "Panic", resp |-> NoResponse, err |-> e,
              svc_called |-> TRUE]
        ELSE IF e # None
        THEN [kind |-> "CsrfError", resp |-> error_response(e), err |-> e,
              svc_called |-> TRUE]
        ELSE [kind |-> "Passthrough", resp |-> service_call(r), err |-> None,
              svc_called |-> TRUE]

\* CsrfMiddleware::call: the future it returns, the CsrfError it passed to
\* error_response (None if none), and whether self.service.call ran.
call(inner, r) ==
    LET e == IF should_protect(inner, r)
             THEN match_tokens(extract_cookie_token(inner, r),
                               extract_request_token(inner, r))
             ELSE None
    IN  IF e = "UnwrapPanic"
        THEN [kind |-> "Panic", resp |-> NoResponse, err |-> e,
              svc_called |-> FALSE]
        ELSE IF e # None
        THEN [kind |-> "CsrfError", resp |-> error_response(e), err |-> e,
              svc_called |-> FALSE]
        ELSE [kind |-> "Passthrough", resp |-> service_call(r), err |-> None,
              svc_called |-> TRUE]

NoFuture == [kind |-> None, resp |-> NoResponse, err |-> None,
             svc_called |-> FALSE]

\* CsrfMiddlewareFuture::poll: the CsrfError arm is todo!(), which panics;
\* the Passthrough arm yields the downstream service's response.
poll(f) ==
    IF f.kind = "Passthrough"
    THEN [kind |-> "Ready", resp |-> f.resp]
    ELSE [kind |-> "Panic", resp |-> NoResponse]

NoOutput == [kind |-> None, resp |-> NoResponse]

\* tests::get_token_from_resp: the token of the single csrfToken Set-Cookie
\* header of a response, None when the response has no such header.
get_token_from_resp(resp) ==
    IF Len(resp.set_cookie) = 1 /\ resp.set_cookie[1].name = "csrfToken"
    THEN resp.set_cookie[1].value
    ELSE None

\* ------------------------------------------------------------------- state
VARIABLES
    phase,      \* "build": the Csrf builder is being configured; "serve"
    csrf,       \* Csrf.inner, the builder's configuration
    ncalls,     \* builder calls made so far
    inner,      \* CsrfMiddleware.inner, the clone taken by new_transform
    pc,         \* "idle", "pending" (call returned a future), "done" (polled)
    req,        \* the request in hand
    fut,        \* the CsrfMiddlewareFuture returned by call
    out,        \* the output of poll
    jar,        \* client: token of the most recently received Set-Cookie
    got_get     \* client: a GET "/" has been answered

vars == <<phase, csrf, ncalls, inner, pc, req, fut, out, jar, got_get>>

serving == <<pc, req, fut, out, jar, got_get>>

\* Csrf::new()
Init ==
    /\ phase = "build"
    /\ csrf = Inner_default
    /\ ncalls = 0
    /\ inner = Inner_default
    /\ pc = "idle"
    /\ req = NoRequest
    /\ fut = NoFuture
    /\ out = NoOutput
    /\ jar = None
    /\ got_get = FALSE

Building ==
    /\ phase = "build"
    /\ ncalls < MaxBuilderCalls
    /\ ncalls' = ncalls + 1
    /\ UNCHANGED <<phase, inner, serving>>

\* Csrf::set_enabled
set_enabled ==
    /\ Building
    /\ \E enabled \in BOOLEAN :
         csrf' = [csrf EXCEPT !.csrf_enabled = enabled]

\* The methods handed to add_extractor and add_whilelist
AddedMethods == {"GET", "POST", "PATCH"}

\* Csrf::add_extractor
add_extractor ==
    /\ Building
    /\ \E method \in AddedMethods, extractor \in Extractors :
         csrf' = [csrf EXCEPT !.req_extractors =
                                 MapInsert(@, method, extractor)]

\* The maps handed to set_extractors
ExtractorMaps ==
    {EmptyMap,
     MapInsert(MapInsert(EmptyMap, "PATCH", Header("x-alt")),
               "POST", Header("x-csrf-token"))}

\* Csrf::set_extractors
set_extractors ==
    /\ Building
    /\ \E extractors \in ExtractorMaps :
         csrf' = [csrf EXCEPT !.req_extractors = extractors]

\* Csrf::add_whilelist
add_whilelist ==
    /\ Building
    /\ \E method \in AddedMethods \ {"PATCH"}, uri \in Paths :
         csrf' = [csrf EXCEPT !.whitelist = Append(@, <<method, uri>>)]

\* Csrf::new_transform
new_transform ==
    /\ phase = "build"
    /\ phase' = "serve"
    /\ inner' = csrf
    /\ UNCHANGED <<csrf, ncalls, serving>>

\* CsrfMiddleware::call on an incoming request
Call ==
    /\ phase = "serve"
    /\ pc = "idle"
    /\ \E r \in Requests :
         /\ req' = r
         /\ fut' = call(inner, r)
    /\ pc' = "pending"
    /\ out' = NoOutput
    /\ UNCHANGED <<phase, csrf, ncalls, inner, jar, got_get>>

\* CsrfMiddlewareFuture::poll
Poll ==
    /\ pc = "pending"
    /\ out' = poll(fut)
    /\ pc' = "done"
    /\ UNCHANGED <<phase, csrf, ncalls, inner, req, fut, jar, got_get>>

\* The client of the tests takes the outcome of test::call_service: it
\* keeps the token of a Set-Cookie it received and goes on to its next
\* request.
Receive ==
    /\ pc = "done"
    /\ jar' = IF out.kind = "Ready" /\ get_token_from_resp(out.resp) # None
              THEN get_token_from_resp(out.resp)
              ELSE jar
    /\ got_get' = (got_get \/ (out.kind = "Ready" /\ req.method = "GET"
                               /\ req.path = "/"))
    /\ pc' = "idle"
    /\ req' = NoRequest
    /\ fut' = NoFuture
    /\ out' = NoOutput
    /\ UNCHANGED <<phase, csrf, ncalls, inner>>

Next ==
    \/ set_enabled
    \/ add_extractor
    \/ set_extractors
    \/ add_whilelist
    \/ new_transform
    \/ Call
    \/ Poll
    \/ Receive

Spec == Init /\ [][Next]_vars

\* ------------------------------------------------------------- properties
\* A request has been handed to CsrfMiddleware::call
Called == pc \in {"pending", "done"}

\* The verdict on the request in hand
Rejected == fut.kind = "CsrfError"
Forwarded == fut.kind = "Passthrough" /\ fut.svc_called

\* The request in hand is on the whitelist, method and path both equal
Whitelisted ==
    \E i \in 1..Len(inner.whitelist) :
        inner.whitelist[i] = <<req.method, req.path>>

HasExtractor == req.method \in DOMAIN inner.req_extractors

\* Protection applies to the request in hand
Protected == Called /\ inner.csrf_enabled /\ ~Whitelisted /\ HasExtractor

\* The token the request supplies where the method's extractor looks
RequestToken == req.headers[inner.req_extractors[req.method].name]

\* The downstream response reached the client unchanged
DownstreamUnchanged ==
    pc = "done" => out = [kind |-> "Ready", resp |-> service_call(req)]

\* C1: every protected request whose check fails (cookie missing, request
\* token missing, or tokens differ) is answered with an HTTP 400 response.
C1_FailedCheckGets400 ==
    (/\ Protected
     /\ pc = "done"
     /\ (req.cookie = None \/ RequestToken = None
            \/ req.cookie # RequestToken))
    => (out.kind = "Ready" /\ out.resp.status = BAD_REQUEST)

\* C2: for a protected request carrying both the cookie and the request
\* token, the request is forwarded downstream iff the two strings are
\* identical, and is rejected with TokenDontMatch when they differ.
C2_AllowIffTokensEqual ==
    (Protected /\ req.cookie # None /\ RequestToken # None)
    => /\ Forwarded <=> (req.cookie = RequestToken)
       /\ (req.cookie # RequestToken)
            => (Rejected /\ fut.err = "TokenDontMatch")

C2_Witness ==
    /\ Protected
    /\ pc = "done"
    /\ req.cookie = "a"
    /\ RequestToken = "ab"
    /\ fut.err = "TokenDontMatch"

\* C3: a protected request without the cookie is rejected with
\* MissingCookie whatever its request token; MissingToken is reported only
\* when the cookie is present.
C3_MissingCookieFirst ==
    Protected
    => /\ (req.cookie = None) => (Rejected /\ fut.err = "MissingCookie")
       /\ (fut.err = "MissingToken") => (req.cookie # None)

C3_Witness ==
    /\ Protected
    /\ req.cookie = None
    /\ RequestToken = None
    /\ fut.err = "MissingCookie"

\* C4: a request whose method and path both equal a whitelist entry is
\* forwarded whatever its cookie and token; a request that is not on the
\* whitelist, whose method has an extractor, is rejected when it lacks the
\* cookie or the token, even if its method is whitelisted for another path.
C4_WhitelistExact ==
    Called
    => /\ Whitelisted => Forwarded
       /\ (/\ inner.csrf_enabled
           /\ HasExtractor
           /\ ~Whitelisted
           /\ (req.cookie = None \/ RequestToken = None))
          => Rejected

C4_Witness ==
    /\ Called
    /\ inner.csrf_enabled
    /\ inner.whitelist = <<(<<"POST", "/">>)>>
    /\ req.method = "POST"
    /\ req.path = "/other"
    /\ req.cookie = None
    /\ Rejected

\* C5: a request whose method has no extractor in the built configuration
\* is forwarded to the downstream service, whatever its cookie and token.
C5_NoExtractorAllowed ==
    (Called /\ ~HasExtractor)
    => (Forwarded /\ DownstreamUnchanged)

C5_Witness ==
    /\ pc = "done"
    /\ inner.csrf_enabled
    /\ ncalls > 0
    /\ inner.req_extractors = EmptyMap
    /\ req.method = "POST"
    /\ req.path = "/"
    /\ req.cookie = None
    /\ out.kind = "Ready"
    /\ out.resp.status = OK

\* C6: with protection disabled every request is forwarded, the client
\* gets the downstream response unchanged, and it has no Set-Cookie header.
C6_DisabledPassesThrough ==
    (Called /\ ~inner.csrf_enabled)
    => /\ Forwarded
       /\ DownstreamUnchanged
       /\ pc = "done" => out.resp.set_cookie = <<>>

C6_Witness ==
    /\ pc = "done"
    /\ ~inner.csrf_enabled
    /\ ~Whitelisted
    /\ HasExtractor
    /\ req.method = "POST"
    /\ req.path = "/"
    /\ req.cookie = None
    /\ RequestToken = None
    /\ out.kind = "Ready"
    /\ out.resp.status = OK

\* C7: with protection enabled, every response to a request that was not
\* rejected carries exactly one Set-Cookie header, naming the configured
\* cookie with Path=/ and a token value.
C7_TokenAttached ==
    (pc = "done" /\ inner.csrf_enabled /\ ~Rejected)
    => /\ out.kind = "Ready"
       /\ Len(out.resp.set_cookie) = 1
       /\ out.resp.set_cookie[1].name = inner.cookie_name
       /\ out.resp.set_cookie[1].path = "/"
       /\ out.resp.set_cookie[1].value \in Tokens

\* C8: under the default configuration, a client that has been answered a
\* GET "/" holds the token of a Set-Cookie, and each of its POST "/" that
\* sends that token as cookie and as x-csrf-token header gets status 200.
C8_DoubleSubmitRoundTrip ==
    (phase = "serve" /\ inner = Inner_default)
    => /\ got_get => jar # None
       /\ (/\ pc = "done"
           /\ got_get
           /\ jar # None
           /\ req.method = "POST"
           /\ req.path = "/"
           /\ req.cookie = jar
           /\ req.headers["x-csrf-token"] = jar)
          => (out.kind = "Ready" /\ out.resp.status = OK)

\* C9: for a rejected request the downstream service is not called, and
\* the error response has no Set-Cookie header.
C9_RejectShortCircuits ==
    (Called /\ Rejected)
    => /\ ~fut.svc_called
       /\ fut.resp.set_cookie = <<>>
       /\ pc = "done" => out.resp.set_cookie = <<>>

C9_Witness ==
    /\ pc = "done"
    /\ Rejected
    /\ fut.err = "TokenDontMatch"
    /\ ~fut.svc_called

\* C10: under the default configuration every request whose method is
\* neither GET nor OPTIONS is rejected unless it carries a cookie token and
\* a matching request token.
C10_DefaultProtectsAllButGetOptions ==
    (/\ Called
     /\ inner = Inner_default
     /\ req.method \notin {"GET", "OPTIONS"}
     /\ ~(req.cookie # None /\ req.cookie = req.headers["x-csrf-token"]))
    => Rejected

====
